---------------------------- MODULE Spec2Model ----------------------------
(***************************************************************************)
(* PillsDB: a typed in-memory key-value store driven by a line-based       *)
(* command loop (src/src/main.rs).                                         *)
(*                                                                         *)
(* Text is modelled as a sequence of one-character strings, bytes as       *)
(* integers 0..255, so that tokenisation, number parsing, number           *)
(* formatting and byte reinterpretation are computed the way the code      *)
(* computes them.                                                          *)
(***************************************************************************)
EXTENDS Integers, Sequences, FiniteSets

VARIABLES
    db,        \* Database.db : HashMap<String, DbValue>, a function key -> DbValue
    input,     \* the token vector of the line being processed (main.rs:111)
    out,       \* the lines written to stdout while processing that line
    pc,        \* "running" while the loop is alive, "panicked" once an unwrap aborted
    replaced,  \* Option<DbValue> returned by HashMap::insert in the last step
    endian,    \* byte order of the build target ("little" or "big")
    val,       \* value-level harness: the native value handed to a constructor
    enc,       \* value-level harness: Option<DbValue>, the constructed value
    dec        \* value-level harness: the accessor's Option result

vars == <<db, input, out, pc, replaced, endian, val, enc, dec>>

---------------------------------------------------------------------------
(* Option<T> *)

None == [some |-> FALSE]

Some(x) == [some |-> TRUE, val |-> x]

---------------------------------------------------------------------------
(* Characters and bytes *)

LowerChars ==
    <<"a","b","c","d","e","f","g","h","i","j","k","l","m",
      "n","o","p","q","r","s","t","u","v","w","x","y","z">>

UpperChars ==
    <<"A","B","C","D","E","F","G","H","I","J","K","L","M",
      "N","O","P","Q","R","S","T","U","V","W","X","Y","Z">>

DigitChars == <<"0","1","2","3","4","5","6","7","8","9">>

Letters(table) == {table[i] : i \in 1..26}

IsDigit(c) == c \in {DigitChars[i] : i \in 1..10}

\* the numeric value of a decimal digit character
DigitVal(c) == (CHOOSE i \in 1..10 : DigitChars[i] = c) - 1

DigitChr(d) == DigitChars[d + 1]

\* char::to_uppercase / char::to_lowercase on the ASCII letters
UpperOf ==
    [c \in Letters(LowerChars) |-> UpperChars[CHOOSE i \in 1..26 : LowerChars[i] = c]]

LowerOf ==
    [c \in Letters(UpperChars) |-> LowerChars[CHOOSE i \in 1..26 : UpperChars[i] = c]]

\* str::to_uppercase / str::to_lowercase on ASCII text
to_uppercase(s) ==
    [i \in 1..Len(s) |-> IF s[i] \in DOMAIN UpperOf THEN UpperOf[s[i]] ELSE s[i]]

to_lowercase(s) ==
    [i \in 1..Len(s) |-> IF s[i] \in DOMAIN LowerOf THEN LowerOf[s[i]] ELSE s[i]]

\* the UTF-8 (here ASCII) byte of each character of the model's alphabet
AsciiTable ==
    {<<UpperChars[i], 64 + i>> : i \in 1..26}
    \cup {<<LowerChars[i], 96 + i>> : i \in 1..26}
    \cup {<<DigitChars[i], 47 + i>> : i \in 1..10}
    \cup {<<" ", 32>>, <<"\n", 10>>, <<"+", 43>>, <<"-", 45>>, <<".", 46>>}

OrdOf == [c \in {p[1] : p \in AsciiTable} |-> (CHOOSE p \in AsciiTable : p[1] = c)[2]]

ChrOf == [b \in {p[2] : p \in AsciiTable} |-> (CHOOSE p \in AsciiTable : p[2] = b)[1]]

Ord(c) == OrdOf[c]

Chr(b) == ChrOf[b]

\* str::as_bytes().to_vec()
as_bytes(s) == [i \in 1..Len(s) |-> Ord(s[i])]

\* str::from_utf8(..).unwrap(): every payload the program stores was taken
\* from a &str, so the decode never fails
from_utf8(bytes) == [i \in 1..Len(bytes) |-> Chr(bytes[i])]

---------------------------------------------------------------------------
(* Tokenisation: input.trim().split(" ") and [..].join(" ") *)

IsWhitespace(c) == c \in {" ", "\n"}

RECURSIVE trim_start(_)
trim_start(s) ==
    IF s # <<>> /\ IsWhitespace(s[1]) THEN trim_start(Tail(s)) ELSE s

RECURSIVE trim_end(_)
trim_end(s) ==
    IF s # <<>> /\ IsWhitespace(s[Len(s)])
    THEN trim_end(SubSeq(s, 1, Len(s) - 1))
    ELSE s

trim(s) == trim_end(trim_start(s))

\* str::split(" "): one token per separator plus one, empty tokens kept;
\* the empty string yields the single empty token
RECURSIVE split(_)
split(s) ==
    IF \E i \in 1..Len(s) : s[i] = " "
    THEN LET i == CHOOSE j \in 1..Len(s) :
                      s[j] = " " /\ \A h \in 1..(j - 1) : s[h] # " "
         IN  <<SubSeq(s, 1, i - 1)>> \o split(SubSeq(s, i + 1, Len(s)))
    ELSE <<s>>

RECURSIVE join(_)
join(toks) ==
    IF toks = <<>> THEN <<>>
    ELSE IF Len(toks) = 1 THEN toks[1]
    ELSE toks[1] \o <<" ">> \o join(Tail(toks))

---------------------------------------------------------------------------
(* Result<T, E>: the error payload is never inspected by the program *)

Ok(x) == [ok |-> TRUE, val |-> x]

Err == [ok |-> FALSE]

---------------------------------------------------------------------------
(* i64: a sign and a decimal magnitude (most significant digit first, no   *)
(* leading zero), so that the full 64-bit range is represented exactly     *)

RECURSIVE StripLeadingZeros(_)
StripLeadingZeros(d) ==
    IF Len(d) > 1 /\ d[1] = 0 THEN StripLeadingZeros(Tail(d)) ELSE d

RECURSIVE LexLeq(_, _)
LexLeq(a, b) ==
    IF a = <<>> THEN TRUE
    ELSE IF a[1] # b[1] THEN a[1] < b[1]
    ELSE LexLeq(Tail(a), Tail(b))

\* a <= b for magnitudes without leading zeros
MagLeq(a, b) == Len(a) < Len(b) \/ (Len(a) = Len(b) /\ LexLeq(a, b))

\* i64::MAX = 9223372036854775807
I64MaxMag == <<9,2,2,3,3,7,2,0,3,6,8,5,4,7,7,5,8,0,7>>

\* -i64::MIN = 9223372036854775808
I64MinMag == <<9,2,2,3,3,7,2,0,3,6,8,5,4,7,7,5,8,0,8>>

I64(neg, mag) == [neg |-> neg /\ mag # <<0>>, mag |-> mag]

\* str::parse::<i64>(): an optional single sign, then one or more decimal
\* digits and nothing else; a value outside the 64-bit range is an error
parse_i64(s) ==
    IF s = <<>> THEN Err
    ELSE LET signed == s[1] \in {"+", "-"}
             digits == IF signed THEN Tail(s) ELSE s
         IN  IF digits = <<>> \/ \E i \in 1..Len(digits) : ~IsDigit(digits[i])
             THEN Err
             ELSE LET mag == StripLeadingZeros(
                                 [i \in 1..Len(digits) |-> DigitVal(digits[i])])
                      neg == s[1] = "-"
                  IN  IF MagLeq(mag, IF neg THEN I64MinMag ELSE I64MaxMag)
                      THEN Ok(I64(neg, mag))
                      ELSE Err

\* i64::to_string()
i64_to_string(i) ==
    (IF i.neg THEN <<"-">> ELSE <<>>) \o [k \in 1..Len(i.mag) |-> DigitChr(i.mag[k])]

Reverse(s) == [k \in 1..Len(s) |-> s[Len(s) + 1 - k]]

\* d * m + c on a decimal magnitude held least significant digit first
RECURSIVE MulAdd(_, _, _)
MulAdd(d, m, c) ==
    IF d = <<>>
    THEN IF c = 0 THEN <<>> ELSE <<c % 10>> \o MulAdd(<<>>, m, c \div 10)
    ELSE LET t == d[1] * m + c
         IN  <<t % 10>> \o MulAdd(Tail(d), m, t \div 10)

\* the unsigned value of bytes given most significant first, as a decimal
\* magnitude held least significant digit first
RECURSIVE BytesToDecimal(_)
BytesToDecimal(b) ==
    IF b = <<>> THEN <<>>
    ELSE MulAdd(BytesToDecimal(SubSeq(b, 1, Len(b) - 1)), 256, b[Len(b)])

Magnitude(lsf) == IF lsf = <<>> THEN <<0>> ELSE Reverse(lsf)

\* the bytes of memory, most significant first, on a target of byte order e
NumericOrder(bytes, e) == IF e = "little" THEN Reverse(bytes) ELSE bytes

\* i64::from_ne_bytes(): two's complement reinterpretation of 8 bytes
i64_from_ne_bytes(bytes, e) ==
    LET msf == NumericOrder(bytes, e)
    IN  IF msf[1] < 128
        THEN I64(FALSE, Magnitude(BytesToDecimal(msf)))
        ELSE LET inv == [k \in 1..Len(msf) |-> 255 - msf[k]]
             IN  I64(TRUE, Magnitude(MulAdd(BytesToDecimal(inv), 1, 1)))

---------------------------------------------------------------------------
(* f64.  A parsed decimal is held exactly as sign, integer digits and      *)
(* fraction digits; this is the value f64 holds, and the text Display      *)
(* prints, for decimals of at most 15 significant digits without exponent, *)
(* which is all the model feeds to the parser.  A float obtained by        *)
(* reinterpreting 8 bytes is held as its bit pattern.                      *)

RECURSIVE StripTrailingZeros(_)
StripTrailingZeros(d) ==
    IF d # <<>> /\ d[Len(d)] = 0
    THEN StripTrailingZeros(SubSeq(d, 1, Len(d) - 1))
    ELSE d

AllDigits(s) == \A i \in 1..Len(s) : IsDigit(s[i])

DigitVals(s) == [i \in 1..Len(s) |-> DigitVal(s[i])]

\* str::parse::<f64>() on sign, digits, optional fraction, inf and nan
parse_f64(s) ==
    LET signed == s # <<>> /\ s[1] \in {"+", "-"}
        neg    == s # <<>> /\ s[1] = "-"
        body   == IF signed THEN Tail(s) ELSE s
        low    == to_lowercase(body)
        hasDot == \E i \in 1..Len(body) : body[i] = "."
        dot    == CHOOSE i \in 1..Len(body) :
                      body[i] = "." /\ \A h \in 1..(i - 1) : body[h] # "."
        ip     == IF hasDot THEN SubSeq(body, 1, dot - 1) ELSE body
        fp     == IF hasDot THEN SubSeq(body, dot + 1, Len(body)) ELSE <<>>
    IN  IF low \in {<<"i","n","f">>, <<"i","n","f","i","n","i","t","y">>}
        THEN Ok([kind |-> "inf", neg |-> neg, int |-> <<>>, frac |-> <<>>])
        ELSE IF low = <<"n","a","n">>
        THEN Ok([kind |-> "nan", neg |-> FALSE, int |-> <<>>, frac |-> <<>>])
        ELSE IF AllDigits(ip) /\ AllDigits(fp) /\ Len(ip) + Len(fp) >= 1
        THEN Ok([kind |-> "dec", neg |-> neg,
                 int  |-> IF ip = <<>> THEN <<0>>
                          ELSE StripLeadingZeros(DigitVals(ip)),
                 frac |-> StripTrailingZeros(DigitVals(fp))])
        ELSE Err

HexChars == <<"0","1","2","3","4","5","6","7","8","9","a","b","c","d","e","f">>

RECURSIVE HexOf(_)
HexOf(bytes) ==
    IF bytes = <<>> THEN <<>>
    ELSE <<HexChars[(bytes[1] \div 16) + 1], HexChars[(bytes[1] % 16) + 1]>>
         \o HexOf(Tail(bytes))

\* f64::to_string().  The float of a reinterpreted payload is printed as
\* its bit pattern: a payload of 8 ASCII bytes has an exponent field between
\* 0x2b0 and 0x39f, a magnitude below 2^-95, which no decimal text of 8
\* characters denotes, so this text differs from every text the parser read.
f64_to_string(f) ==
    CASE f.kind = "dec" ->
             (IF f.neg THEN <<"-">> ELSE <<>>)
             \o [k \in 1..Len(f.int) |-> DigitChr(f.int[k])]
             \o (IF f.frac = <<>> THEN <<>>
                 ELSE <<".">> \o [k \in 1..Len(f.frac) |-> DigitChr(f.frac[k])])
      [] f.kind = "inf"  -> IF f.neg THEN <<"-","i","n","f">> ELSE <<"i","n","f">>
      [] f.kind = "nan"  -> <<"N","a","N">>
      [] f.kind = "bits" -> <<"0", "x">> \o HexOf(f.bytes)

\* f64::from_ne_bytes()
f64_from_ne_bytes(bytes, e) == [kind |-> "bits", bytes |-> NumericOrder(bytes, e)]

\* str::parse::<bool>(): exactly "true" or "false"
parse_bool(s) ==
    IF s = <<"t","r","u","e">> THEN Ok(TRUE)
    ELSE IF s = <<"f","a","l","s","e">> THEN Ok(FALSE)
    ELSE Err

\* bool's Display
bool_to_string(b) == IF b THEN <<"t","r","u","e">> ELSE <<"f","a","l","s","e">>

---------------------------------------------------------------------------
(* DbValue *)

DataType == {"String", "Int", "Float", "Bool"}

DbValue(typetag, data) == [typetag |-> typetag, data |-> data]

from_str(s) == DbValue("String", as_bytes(s))

from_i64(i) == DbValue("Int", as_bytes(i64_to_string(i)))

\* from_f64 as it would be with the tag of from_i64 copied over
from_f64_int_tag(f) == DbValue("Int", as_bytes(f64_to_string(f)))

from_f64(f) == DbValue("Float", as_bytes(f64_to_string(f)))

from_bool(b) == DbValue("Bool", as_bytes(IF b THEN <<"t","r","u","e">> ELSE <<"f","a","l","s","e">>))

as_string(v) ==
    IF v.typetag = "String" THEN Some(from_utf8(v.data)) ELSE None

\* as_int as it would be if it trusted the payload length alone
as_int_untagged(v, e) ==
    IF Len(v.data) = 8
    THEN Some(i64_from_ne_bytes(SubSeq(v.data, 1, 8), e))
    ELSE None

as_int(v, e) ==
    IF v.typetag = "Int" /\ Len(v.data) = 8
    THEN Some(i64_from_ne_bytes(SubSeq(v.data, 1, 8), e))
    ELSE None

as_float(v, e) ==
    IF v.typetag = "Float" /\ Len(v.data) = 8
    THEN Some(f64_from_ne_bytes(SubSeq(v.data, 1, 8), e))
    ELSE None

\* as_bool as it would be if it decoded the text from_bool writes
as_bool_text(v) ==
    IF v.typetag = "Bool" /\ v.data # <<>>
    THEN Some(from_utf8(v.data) = <<"t","r","u","e">>)
    ELSE None

as_bool(v) ==
    IF v.typetag = "Bool" /\ v.data # <<>>
    THEN Some(v.data[1] # 0)
    ELSE None

---------------------------------------------------------------------------
(* Database *)

\* Database::new()
EmptyDb == [k \in {} |-> None]

\* Database::get as it would be with keys compared without regard to case
get_ignore_case(d, key) ==
    LET hits == {k \in DOMAIN d : to_lowercase(k) = to_lowercase(key)}
    IN  IF hits # {} THEN Some(d[CHOOSE k \in hits : TRUE]) ELSE None

\* Database::get
get(d, key) == IF key \in DOMAIN d THEN Some(d[key]) ELSE None

\* Database::set as it would be with keys compared without regard to case
set_ignore_case(d, key, value) ==
    LET kept == {k \in DOMAIN d : to_lowercase(k) # to_lowercase(key)}
    IN  [k \in kept \cup {key} |-> IF k = key THEN value ELSE d[k]]

\* Database::set as it would be if it started a new map
set_fresh(d, key, value) == [k \in {key} |-> value]

\* Database::set: HashMap::insert replaces the entry of an equal key
set(d, key, value) ==
    [k \in DOMAIN d \cup {key} |-> IF k = key THEN value ELSE d[k]]

---------------------------------------------------------------------------
(* The command loop of main: one action per branch of the dispatch.  Every *)
(* action takes the token vector of the line just read (main.rs:109-111)   *)
(* and runs its branch to the end of the loop body or to the panic that    *)
(* ends the process.                                                       *)

\* println!(fmt, args..): the format string and its rendered arguments
Println(fmt, args) == [fmt |-> fmt, args |-> args]

\* io::stdin().read_line() then trim().split(" ").collect()
Tokens(raw) == split(trim(raw))

\* the command selection as it would be without the upper-casing
Command_exact(toks) == toks[1]

\* main.rs:117: the command selected by the upper-cased first token
Command(toks) == to_uppercase(toks[1])

\* main.rs:126-131: the text GET prints for a stored value, chosen by the
\* value's own tag; None where the accessor returns None and unwrap() panics
Render(value, e) ==
    CASE value.typetag = "String" ->
             LET r == as_string(value)
             IN  IF r.some THEN Some(r.val) ELSE None
      [] value.typetag = "Int" ->
             LET r == as_int(value, e)
             IN  IF r.some THEN Some(i64_to_string(r.val)) ELSE None
      [] value.typetag = "Float" ->
             LET r == as_float(value, e)
             IN  IF r.some THEN Some(f64_to_string(r.val)) ELSE None
      [] value.typetag = "Bool" ->
             LET r == as_bool(value)
             IN  IF r.some THEN Some(bool_to_string(r.val)) ELSE None

\* main.rs:119: GET without a key
GetArityError(toks) == Len(toks) < 2

\* the SET arity check as it would be if it counted one token too few
SetArityError_OneShort(toks) == Len(toks) < 2

\* main.rs:137: SET without key or type
SetArityError(toks) == Len(toks) < 3

\* the process aborts: nothing reaches stdout and the loop is gone
Panic ==
    /\ out' = <<>>
    /\ pc' = "panicked"

\* main.rs:118-135
GetCmd(toks) ==
    /\ pc = "running"
    /\ toks # <<>>
    /\ Command(toks) = <<"G","E","T">>
    /\ input' = toks
    /\ replaced' = None
    /\ UNCHANGED <<db, endian, val, enc, dec>>
    /\ IF GetArityError(toks)
       THEN /\ out' = <<Println("Usage: GET <key>", <<>>)>>
            /\ pc' = pc
       ELSE IF Len(toks) < 2
       THEN Panic    \* input[1]: index out of bounds
       ELSE LET found == get(db, toks[2])
            IN  IF found.some
                THEN LET shown == Render(found.val, endian)
                     IN  IF shown.some
                         THEN /\ out' = <<Println("{}: {}", <<toks[2], shown.val>>)>>
                              /\ pc' = pc
                         ELSE Panic    \* Option::unwrap() on None
                ELSE /\ out' = <<Println("Key not found", <<>>)>>
                     /\ pc' = pc

\* main.rs:147-174: the value built for the type token, or the message of
\* the branch that gives up
BuildValue(value_type, value_str) ==
    CASE value_type \in {<<"s","t","r">>, <<"s","t","r","i","n","g">>} ->
             Ok(from_str(value_str))
      [] value_type \in {<<"i","n","t">>, <<"i","6","4">>} ->
             LET r == parse_i64(value_str)
             IN  IF r.ok THEN Ok(from_i64(r.val))
                 ELSE [ok |-> FALSE, msg |-> "Invalid integer value"]
      [] value_type \in {<<"f","l","o","a","t">>, <<"f","6","4">>} ->
             LET r == parse_f64(value_str)
             IN  IF r.ok THEN Ok(from_f64(r.val))
                 ELSE [ok |-> FALSE, msg |-> "Invalid float value"]
      [] value_type = <<"b","o","o","l">> ->
             LET r == parse_bool(value_str)
             IN  IF r.ok THEN Ok(from_bool(r.val))
                 ELSE [ok |-> FALSE,
                       msg |-> "Invalid boolean value (use 'true' or 'false')"]
      [] OTHER ->
             [ok |-> FALSE, msg |-> "Invalid type. Use: str, int, float, bool"]

\* the value text as it would be if only the first value token were taken
ValueStr_first(toks) == IF Len(toks) >= 4 THEN toks[4] ELSE <<>>

\* main.rs:145: input[3..].join(" ")
ValueStr(toks) == join(SubSeq(toks, 4, Len(toks)))

\* main.rs:136-177
SetCmd(toks) ==
    /\ pc = "running"
    /\ toks # <<>>
    /\ Command(toks) = <<"S","E","T">>
    /\ input' = toks
    /\ UNCHANGED <<endian, val, enc, dec>>
    /\ IF SetArityError(toks)
       THEN /\ out' = <<Println("Usage: SET <key> <type> <value>", <<>>),
                        Println("Types: str, int, float, bool", <<>>)>>
            /\ UNCHANGED <<db, pc>>
            /\ replaced' = None
       ELSE IF Len(toks) < 3
       THEN \* input[1], input[2], input[3..]: index out of bounds
            /\ Panic
            /\ UNCHANGED db
            /\ replaced' = None
       ELSE LET key        == toks[2]
                value_type == to_lowercase(toks[3])
                value_str  == ValueStr(toks)
                value      == BuildValue(value_type, value_str)
            IN  IF value.ok
                THEN /\ db' = set(db, key, value.val)
                     /\ replaced' = get(db, key)
                     /\ out' = <<Println("SET successful", <<>>)>>
                     /\ pc' = pc
                ELSE /\ out' = <<Println(value.msg, <<>>)>>
                     /\ UNCHANGED <<db, pc>>
                     /\ replaced' = None

\* the iteration as it would be if the loop stopped after its first entry
Orders_first(keys) ==
    {o \in [1..(IF keys = {} THEN 0 ELSE 1) -> keys] : TRUE}

\* the orders in which a HashMap of these keys can be iterated
Orders(keys) ==
    {o \in [1..Cardinality(keys) -> keys] :
        \A i, j \in 1..Cardinality(keys) : i # j => o[i] # o[j]}

\* main.rs:178-182
DebugCmd(toks) ==
    /\ pc = "running"
    /\ toks # <<>>
    /\ Command(toks) = <<"D","E","B","U","G">>
    /\ input' = toks
    /\ replaced' = None
    /\ \E o \in Orders(DOMAIN db) :
           out' = [i \in 1..Len(o) |-> Println("{}: {:?}", <<o[i], db[o[i]]>>)]
    /\ UNCHANGED <<db, pc, endian, val, enc, dec>>

\* main.rs:113-115 and 183-185: a line with no token is skipped in silence,
\* a line whose first token names no command is reported
OtherCmd(toks) ==
    /\ pc = "running"
    /\ IF toks = <<>> THEN TRUE
       ELSE Command(toks) \notin
                {<<"G","E","T">>, <<"S","E","T">>, <<"D","E","B","U","G">>}
    /\ input' = toks
    /\ replaced' = None
    /\ out' = IF toks = <<>> THEN <<>> ELSE <<Println("Unknown command", <<>>)>>
    /\ UNCHANGED <<db, pc, endian, val, enc, dec>>

---------------------------------------------------------------------------
(* Input lines.  A raw line is what read_line leaves in the buffer: the    *)
(* text and its newline, or nothing at end of input.                       *)

\* the largest number of value tokens of a string SET
MaxValueTokens == 2

Line(toks) == join(toks) \o <<"\n">>

kA == <<"a">>

kUpperA == <<"A">>

kB == <<"b">>

tX == <<"x">>

tY == <<"y">>

t42 == <<"4","2">>

\* n value tokens: x, y, x, ...
ValueTokens(n) == [i \in 1..n |-> IF i % 2 = 1 THEN tX ELSE tY]

GetLines ==
    {Line(<<<<"G","E","T">>>>)}
    \cup {Line(<<c, k>>) : c \in {<<"G","E","T">>, <<"g","e","t">>}, k \in {kA, kUpperA, kB}}
    \cup {Line(<<<<"G","E","T">>, <<>>, kA>>),
          Line(<<<<"G","e","t">>, kB>>)}

StrSetLines ==
    {Line(<<<<"S","E","T">>, kA, <<"s","t","r">>>> \o ValueTokens(n)) : n \in 0..MaxValueTokens}
    \cup {Line(<<<<"S","E","T">>, kA, <<"s","t","r","i","n","g">>, t42>>),
          Line(<<<<"s","e","t">>, kUpperA, <<"s","t","r">>, tX>>),
          Line(<<<<"S","E","T">>, <<>>, <<"s","t","r">>, tX>>)}

IntTexts ==
    {t42, <<"-","7">>, <<"1","2","3","4","5","6","7","8">>, tX, <<"9","2","2","3","3","7","2","0","3","6","8","5","4","7","7","5","8","0","8">>}

IntSetLines ==
    {Line(<<<<"S","E","T">>, kA, <<"i","n","t">>, v>>) : v \in IntTexts}
    \cup {Line(<<<<"S","E","T">>, kA, <<"i","n","t">>>>),
          Line(<<<<"S","E","T">>, kA, <<"i","n","t">>, <<"4">>, <<"2">>>>),
          Line(<<<<"S","E","T">>, kA, <<"i","6","4">>, t42>>),
          Line(<<<<"S","E","T">>, kUpperA, <<"I","N","T">>, t42>>),
          <<" ", " ">> \o Line(<<<<"S","E","T">>, kA, <<"i","n","t">>, t42>>)}

FloatTexts == {<<"3",".","1","4">>, <<"3",".","1","4","1","5","9","2">>, t42, tX}

FloatSetLines ==
    {Line(<<<<"S","E","T">>, kA, <<"f","l","o","a","t">>, v>>) : v \in FloatTexts}
    \cup {Line(<<<<"S","E","T">>, kA, <<"f","6","4">>, <<"3",".","1","4">>>>)}

BoolTexts == {<<"t","r","u","e">>, <<"f","a","l","s","e">>, <<"T","r","u","e">>}

BoolSetLines == {Line(<<<<"S","E","T">>, kA, <<"b","o","o","l">>, v>>) : v \in BoolTexts}

ShortSetLines ==
    {Line(<<<<"S","E","T">>>>), Line(<<<<"S","E","T">>, kA>>),
     Line(<<<<"S","E","T">>, kA, <<"f","o","o">>, tX>>)}

OtherLines ==
    {<<>>, <<"\n">>, <<" ", " ", "\n">>,
     Line(<<<<"D","E","B","U","G">>>>), Line(<<<<"d","e","b","u","g">>>>),
     Line(<<<<"F","O","O">>, <<"b","a","r">>>>)}

RawLines ==
    GetLines \cup StrSetLines \cup IntSetLines \cup FloatSetLines
    \cup BoolSetLines \cup ShortSetLines \cup OtherLines

---------------------------------------------------------------------------
(* The program *)

Init ==
    /\ db = EmptyDb
    /\ input = <<>>
    /\ out = <<>>
    /\ pc = "running"
    /\ replaced = None
    /\ endian \in {"little", "big"}
    /\ val = None
    /\ enc = None
    /\ dec = None

\* main.rs:109-111: the token vectors the loop can read
InputLines == {Tokens(raw) : raw \in RawLines}

Next ==
    \E toks \in InputLines :
        \/ GetCmd(toks)
        \/ SetCmd(toks)
        \/ DebugCmd(toks)
        \/ OtherCmd(toks)

Spec == Init /\ [][Next]_vars

---------------------------------------------------------------------------
(* Value level: a native value is handed to its constructor and the result *)
(* to one accessor (main.rs:22-82), without the store or the loop.         *)

\* the longest native string of the value-level inputs
MaxStrLen == 2

StrChars == {"a", " ", "7"}

Strings == UNION {[1..n -> StrChars] : n \in 0..MaxStrLen}

Int64s ==
    {I64(neg, mag) :
        neg \in BOOLEAN,
        mag \in {<<0>>, <<7>>, <<4,2>>, <<1,2,3,4,5,6,7>>, <<1,2,3,4,5,6,7,8>>,
                 I64MaxMag}}

Float64s ==
    {parse_f64(t).val :
        t \in {<<"3",".","1","4">>, <<"-","0",".","5">>, <<"4","2">>, <<"0">>, <<"3",".","1","4","1","5","9","2">>, <<"-","1","2","3","4",".","5">>, <<"i","n","f">>, <<"n","a","n">>}}

Native(type, values) == {[type |-> type, v |-> x] : x \in values}

\* main.rs:22-48: the constructor of the native value's type
Construct ==
    /\ val # None
    /\ enc = None
    /\ enc' = Some(CASE val.type = "String" -> from_str(val.v)
                     [] val.type = "Int"    -> from_i64(val.v)
                     [] val.type = "Float"  -> from_f64(val.v)
                     [] val.type = "Bool"   -> from_bool(val.v))
    /\ UNCHANGED <<db, input, out, pc, replaced, endian, val, dec>>

\* main.rs:52-82: one accessor applied to the constructed value
Access(t) ==
    /\ enc # None
    /\ dec = None
    /\ dec' = Some([accessor |-> t,
                    result   |-> CASE t = "String" -> as_string(enc.val)
                                   [] t = "Int"    -> as_int(enc.val, endian)
                                   [] t = "Float"  -> as_float(enc.val, endian)
                                   [] t = "Bool"   -> as_bool(enc.val)])
    /\ UNCHANGED <<db, input, out, pc, replaced, endian, val, enc>>

ValueInit ==
    /\ db = EmptyDb
    /\ input = <<>>
    /\ out = <<>>
    /\ pc = "running"
    /\ replaced = None
    /\ endian \in {"little", "big"}
    /\ \/ val \in Native("String", Strings)
       \/ val \in Native("Int", Int64s)
       \/ val \in Native("Float", Float64s)
       \/ val \in Native("Bool", BOOLEAN)
    /\ enc = None
    /\ dec = None

ValueNext == Construct \/ \E t \in DataType : Access(t)

ValueSpec == ValueInit /\ [][ValueNext]_vars

---------------------------------------------------------------------------
(* Vocabulary of the properties.  A state is what the loop has after one   *)
(* line: input holds that line's tokens and out what it printed.           *)

wGET == <<"G","E","T">>

wSET == <<"S","E","T">>

SetSuccessful == <<Println("SET successful", <<>>)>>

KeyNotFound == <<Println("Key not found", <<>>)>>

GetUsage == <<Println("Usage: GET <key>", <<>>)>>

SetUsage ==
    <<Println("Usage: SET <key> <type> <value>", <<>>),
      Println("Types: str, int, float, bool", <<>>)>>

\* the output `k: text`
Shows(k, text) == <<Println("{}: {}", <<k, text>>)>>

\* toks is a GET line with a key argument
IsGet(toks) == toks # <<>> /\ Command(toks) = wGET /\ Len(toks) >= 2

\* toks is a SET line
IsSet(toks) == toks # <<>> /\ Command(toks) = wSET

\* the type token and the value text of a SET line of at least 3 tokens
TypeOf(toks) == to_lowercase(toks[3])

ValueText(toks) == join(SubSeq(toks, 4, Len(toks)))

IntTypes == {<<"i","n","t">>, <<"i","6","4">>}

FloatTypes == {<<"f","l","o","a","t">>, <<"f","6","4">>}

StrTypes == {<<"s","t","r">>, <<"s","t","r","i","n","g">>}

BoolTypes == {<<"b","o","o","l">>}

\* the native textual form of the value a SET line of a known type denotes
NativeText(toks) ==
    CASE TypeOf(toks) \in IntTypes   -> i64_to_string(parse_i64(ValueText(toks)).val)
      [] TypeOf(toks) \in FloatTypes -> f64_to_string(parse_f64(ValueText(toks)).val)
      [] TypeOf(toks) \in BoolTypes  -> bool_to_string(parse_bool(ValueText(toks)).val)
      [] TypeOf(toks) \in StrTypes   -> ValueText(toks)

\* the last line was a SET that reported success
SetSucceeded == pc = "running" /\ IsSet(input) /\ out = SetSuccessful

---------------------------------------------------------------------------
(* C1: a successful SET of an int or float value, followed at once by GET  *)
(* of the same key, prints the key and the value's native text.            *)
C1_SetThenGetNumeric ==
    [][(/\ SetSucceeded
        /\ TypeOf(input) \in IntTypes \cup FloatTypes
        /\ IsGet(input')
        /\ input'[2] = input[2])
       => out' = Shows(input[2], NativeText(input))]_vars

(* C2: no input line ends the process: the loop is always ready for the    *)
(* next line.                                                              *)
C2_NeverTerminates == pc = "running"

(* C3: for each type, the type's accessor applied to the value its         *)
(* constructor built returns Some of the original native value.            *)
C3_RoundTrip ==
    (dec.some /\ dec.val.accessor = val.type) => dec.val.result = Some(val.v)

(* C4: after a successful SET on a key that already held a value, the      *)
(* store holds for that key exactly the tag and payload of the new value,  *)
(* and a GET of the key prints the new value's rendering.                  *)
C4_OverwriteReplaces ==
    [][(SetSucceeded /\ replaced.some)
       => /\ input[2] \in DOMAIN db
          /\ db[input[2]] = BuildValue(TypeOf(input), ValueText(input)).val
          /\ (IsGet(input') /\ input'[2] = input[2])
                => out' = Shows(input[2], NativeText(input))]_vars

\* every constructor stores the native text of its value (main.rs:25, 32,
\* 39, 46), so the value a key holds reads back from its payload
HeldText(k) == from_utf8(db[k].data)

\* toks is a SET line of type int, float or bool whose value text does not
\* parse as that type
ParseFails(toks) ==
    /\ IsSet(toks)
    /\ Len(toks) >= 3
    /\ \/ TypeOf(toks) \in IntTypes /\ ~parse_i64(ValueText(toks)).ok
       \/ TypeOf(toks) \in FloatTypes /\ ~parse_f64(ValueText(toks)).ok
       \/ TypeOf(toks) \in BoolTypes /\ ~parse_bool(ValueText(toks)).ok

InvalidValue(toks) ==
    CASE TypeOf(toks) \in IntTypes   -> <<Println("Invalid integer value", <<>>)>>
      [] TypeOf(toks) \in FloatTypes -> <<Println("Invalid float value", <<>>)>>
      [] TypeOf(toks) \in BoolTypes  ->
             <<Println("Invalid boolean value (use 'true' or 'false')", <<>>)>>

(* C5: a SET whose value text does not parse prints the type's `Invalid    *)
(* ... value` message and leaves the store unchanged, and a GET of the key *)
(* that follows prints the value the key held before, or `Key not found`.  *)
C5_NoPartialWrite ==
    [][/\ (pc = "running" /\ ParseFails(input'))
            => (out' = InvalidValue(input') /\ db' = db)
       /\ (pc = "running" /\ ParseFails(input)
           /\ IsGet(input') /\ input'[2] = input[2])
            => out' = IF input[2] \in DOMAIN db
                      THEN Shows(input[2], HeldText(input[2]))
                      ELSE KeyNotFound]_vars

\* The part of the above that concerns the store alone: a SET that fails to
\* parse prints its message and changes nothing.
ParseErrorLeavesStore ==
    [][(pc = "running" /\ ParseFails(input'))
        => (out' = InvalidValue(input') /\ db' = db /\ pc' = "running")]_vars

(* C6: GET of a key the store does not hold prints `Key not found` and     *)
(* leaves the store exactly as it was.                                     *)
C6_GetMissingKey ==
    [][(pc = "running" /\ IsGet(input') /\ input'[2] \notin DOMAIN db)
        => (out' = KeyNotFound /\ db' = db /\ pc' = "running")]_vars

\* a GET of an absent key has just been answered, over a store that holds
\* other keys
C6_Witness ==
    /\ pc = "running"
    /\ IsGet(input)
    /\ input[2] \notin DOMAIN db
    /\ DOMAIN db # {}
    /\ out = KeyNotFound

(* C7: GET of a key, issued twice with no SET between, is answered both    *)
(* times, with the same output, and changes nothing in the store.          *)
C7_IdempotentGet ==
    [][/\ (pc = "running" /\ IsGet(input')) => (pc' = "running" /\ db' = db)
       /\ (pc = "running" /\ IsGet(input)
           /\ IsGet(input') /\ input'[2] = input[2])
            => out' = out]_vars

\* The part of the above that holds of every GET that is answered: the
\* store is untouched and a repeated GET prints the same line.
AnsweredGetRepeats ==
    [][/\ (pc = "running" /\ IsGet(input')) => db' = db
       /\ (pc = "running" /\ IsGet(input)
           /\ IsGet(input') /\ input'[2] = input[2])
            => (pc' = "running" /\ out' = out)]_vars

(* C8: GET with no argument and SET with fewer than two arguments print    *)
(* their usage message and leave the store unchanged.                      *)
C8_UsageGating ==
    [][/\ (pc = "running" /\ input' # <<>>
           /\ Command(input') = wGET /\ Len(input') = 1)
            => (out' = GetUsage /\ db' = db /\ pc' = "running")
       /\ (pc = "running" /\ IsSet(input') /\ Len(input') < 3)
            => (out' = SetUsage /\ db' = db /\ pc' = "running")]_vars

\* a SET of two tokens has just been refused with the usage message, over a
\* store that holds a value
C8_Witness ==
    /\ pc = "running"
    /\ IsSet(input)
    /\ Len(input) = 2
    /\ out = SetUsage
    /\ DOMAIN db # {}

(* C9: a SET line of exactly three tokens (no value token) prints the      *)
(* two-line usage message and leaves the store unchanged, whatever the     *)
(* type token.                                                             *)
C9_SetNeedsValueToken ==
    [][(pc = "running" /\ IsSet(input') /\ Len(input') = 3)
        => (out' = SetUsage /\ db' = db)]_vars

(* C10: a line that is empty once trimmed prints nothing and leaves the    *)
(* store unchanged.                                                        *)
C10_EmptyLineSilent ==
    [][(pc = "running" /\ join(input') = <<>>) => (out' = <<>> /\ db' = db)]_vars

(* C11: an accessor applied to a value built with another tag returns      *)
(* None, whatever the payload; in particular as_int on a Float value and   *)
(* as_float on an Int value.                                               *)
C11_TagIsolation ==
    (dec.some /\ enc.some /\ dec.val.accessor # enc.val.typetag)
        => dec.val.result = None

\* as_int has been applied to a Float value whose payload is 8 bytes long
C11_Witness ==
    /\ dec.some
    /\ enc.some
    /\ val.type = "Float"
    /\ enc.val.typetag = "Float"
    /\ Len(enc.val.data) = 8
    /\ dec.val.accessor = "Int"
    /\ dec.val.result = None

(* C12: every key the store holds is non-empty text, whatever lines were   *)
(* read, lines with consecutive spaces included.                           *)
C12_KeysNonEmpty == \A k \in DOMAIN db : k # <<>>

UnknownCommand == <<Println("Unknown command", <<>>)>>

KnownCommands == {wGET, wSET, <<"D","E","B","U","G">>}

\* the spellings of GET the claim names
GetSpellings == {<<"g","e","t">>, <<"G","e","t">>, <<"G","E","T">>}

(* C13: a line whose first token, upper-cased, is none of GET, SET, DEBUG  *)
(* prints `Unknown command` and leaves the store unchanged; a line whose   *)
(* first token is get, Get or GET is handled as GET, never as unknown.     *)
C13_UnknownCommand ==
    [][(pc = "running" /\ input' # <<>>)
        => /\ to_uppercase(input'[1]) \notin KnownCommands
                => (out' = UnknownCommand /\ db' = db /\ pc' = "running")
           /\ to_uppercase(input'[1]) \in KnownCommands
                => out' # UnknownCommand
           /\ (input'[1] \in GetSpellings /\ Len(input') >= 2
               /\ input'[2] \notin DOMAIN db)
                => out' = KeyNotFound]_vars

\* a line naming no command has just been refused over a store that holds
\* a value
C13_Witness ==
    /\ pc = "running"
    /\ input # <<>>
    /\ input[1] = <<"F","O","O">>
    /\ out = UnknownCommand
    /\ DOMAIN db # {}

\* a GET spelled in lower case has just been answered as a GET
LowerCaseGetAnswered ==
    /\ pc = "running"
    /\ input # <<>>
    /\ input[1] = <<"g","e","t">>
    /\ out = KeyNotFound

(* C14: every Int and every Float value in the store has a payload of      *)
(* exactly 8 bytes, so the accessor of its own tag, the one GET selects,   *)
(* returns Some.                                                           *)
C14_NumericPayloadEightBytes ==
    \A k \in DOMAIN db :
        db[k].typetag \in {"Int", "Float"}
            => (Len(db[k].data) = 8 /\ Render(db[k], endian).some)

(* C15: a string SET stores the tokens from index 3 onward rejoined with   *)
(* single spaces, that is, the text which split on single spaces gives     *)
(* those tokens back, and a GET of the key that follows prints it.         *)
C15_StringValueJoined ==
    [][(/\ SetSucceeded
        /\ TypeOf(input) \in StrTypes
        /\ Len(input) >= 4)
       => /\ input[2] \in DOMAIN db
          /\ db[input[2]].typetag = "String"
          /\ split(from_utf8(db[input[2]].data)) = SubSeq(input, 4, Len(input))
          /\ (IsGet(input') /\ input'[2] = input[2])
                => /\ pc' = "running"
                   /\ out' = Shows(input[2], from_utf8(db[input[2]].data))]_vars

\* the two-token value `x y` has been stored and a GET has just printed it
C15_Witness ==
    /\ pc = "running"
    /\ IsGet(input)
    /\ input[2] \in DOMAIN db
    /\ db[input[2]] = DbValue("String", as_bytes(<<"x", " ", "y">>))
    /\ out = Shows(input[2], <<"x", " ", "y">>)

(* C16: GET of a key that holds a Bool value prints `true`, whether the    *)
(* value was set with true or with false: from_bool writes the text and    *)
(* as_bool tests only that its first byte is not 0.                        *)
C16_BoolAlwaysTrue ==
    [][(/\ pc = "running"
        /\ IsGet(input')
        /\ input'[2] \in DOMAIN db
        /\ db[input'[2]].typetag = "Bool")
       => (pc' = "running" /\ out' = Shows(input'[2], <<"t","r","u","e">>))]_vars

\* a key set with false has just been printed as true
C16_Witness ==
    /\ pc = "running"
    /\ IsGet(input)
    /\ input[2] \in DOMAIN db
    /\ db[input[2]] = from_bool(FALSE)
    /\ out = Shows(input[2], <<"t","r","u","e">>)

InvalidType == <<Println("Invalid type. Use: str, int, float, bool", <<>>)>>

\* the tag each accepted type name selects
TagOf(ty) ==
    CASE ty \in StrTypes   -> "String"
      [] ty \in IntTypes   -> "Int"
      [] ty \in FloatTypes -> "Float"
      [] ty \in BoolTypes  -> "Bool"

(* C17: the type token of a SET is matched without regard to case; str and *)
(* string select String, int and i64 Int, float and f64 Float, bool Bool;  *)
(* any other type token prints `Invalid type. Use: str, int, float, bool`  *)
(* and leaves the store unchanged; after a successful SET the stored       *)
(* value's tag is the one the type token selects.                          *)
C17_TypeSelection ==
    [][(pc = "running" /\ IsSet(input') /\ Len(input') >= 3)
        => LET ty == to_lowercase(input'[3])
               known == StrTypes \cup IntTypes \cup FloatTypes \cup BoolTypes
           IN  /\ ty \notin known => (out' = InvalidType /\ db' = db)
               /\ ty \in known => out' # InvalidType
               /\ ty \in StrTypes => out' = SetSuccessful
               /\ out' = SetSuccessful
                    => /\ ty \in known
                       /\ input'[2] \in DOMAIN db'
                       /\ db'[input'[2]].typetag = TagOf(ty)]_vars

\* a SET whose type token is spelled in upper case has just stored an Int
C17_Witness ==
    /\ SetSucceeded
    /\ Len(input) >= 4
    /\ input[3] = <<"I","N","T">>
    /\ input[2] \in DOMAIN db
    /\ db[input[2]].typetag = "Int"

\* a SET with a type token the program does not know has just been refused
InvalidTypeRefused ==
    /\ pc = "running"
    /\ IsSet(input)
    /\ Len(input) >= 3
    /\ out = InvalidType
    /\ DOMAIN db # {}

wDEBUG == <<"D","E","B","U","G">>

(* C18: DEBUG prints exactly one line for each (key, value) pair the store *)
(* holds, in some order, none for an empty store, and leaves the store     *)
(* unchanged.                                                              *)
C18_DebugReadOnlyComplete ==
    [][(pc = "running" /\ input' # <<>> /\ to_uppercase(input'[1]) = wDEBUG)
        => /\ db' = db
           /\ pc' = "running"
           /\ Len(out') = Cardinality(DOMAIN db)
           /\ {out'[i].args[1] : i \in 1..Len(out')} = DOMAIN db
           /\ \A i \in 1..Len(out') :
                  /\ out'[i].fmt = "{}: {:?}"
                  /\ out'[i].args = <<out'[i].args[1], db[out'[i].args[1]]>>]_vars

\* DEBUG has just listed a store of at least two entries
C18_Witness ==
    /\ pc = "running"
    /\ input # <<>>
    /\ to_uppercase(input[1]) = wDEBUG
    /\ Cardinality(DOMAIN db) >= 2
    /\ Len(out) = Cardinality(DOMAIN db)

\* DEBUG has just printed nothing for the empty store
DebugOfEmptyStore ==
    /\ pc = "running"
    /\ input # <<>>
    /\ to_uppercase(input[1]) = wDEBUG
    /\ DOMAIN db = {}
    /\ out = <<>>

\* every key but k is held, or not held, with the same value in d and e
SameElsewhere(d, e, k) ==
    \A j \in (DOMAIN d \cup DOMAIN e) \ {k} :
        j \in DOMAIN d /\ j \in DOMAIN e /\ d[j] = e[j]

(* C19: a successful SET of k changes only the entry of k, keys being      *)
(* compared exactly (a and A are two keys), and the store changes in a     *)
(* step if and only if the step prints `SET successful`.                   *)
C19_SetFrameIff ==
    [][pc = "running"
        => /\ (IsSet(input') /\ out' = SetSuccessful)
                => SameElsewhere(db, db', input'[2])
           /\ db' # db <=> out' = SetSuccessful]_vars

(* C19 as amended: a successful SET of k changes only the entry of k; the  *)
(* store changes in a step only if the step prints `SET successful`; and a *)
(* step that prints `SET successful` leaves the store as it was exactly    *)
(* when k already held the same tag and payload.                           *)
C19_SetFrame ==
    [][pc = "running"
        => /\ (IsSet(input') /\ out' = SetSuccessful)
                => /\ SameElsewhere(db, db', input'[2])
                   /\ input'[2] \in DOMAIN db'
                   /\ db' = db <=> /\ input'[2] \in DOMAIN db
                                   /\ db[input'[2]] = db'[input'[2]]
           /\ db' # db => (IsSet(input') /\ out' = SetSuccessful)]_vars

\* a SET of A has just succeeded while a holds another value
C19_Witness ==
    /\ SetSucceeded
    /\ input[2] = kUpperA
    /\ kA \in DOMAIN db
    /\ kUpperA \in DOMAIN db
    /\ db[kA] # db[kUpperA]

\* a SET has just succeeded on a key that already held the same value
SetOfSameValue ==
    /\ SetSucceeded
    /\ Len(input) >= 4
    /\ replaced = Some(db[input[2]])

(* C20: the set of keys of the store never shrinks, and once a SET of k    *)
(* has succeeded no later GET of k prints `Key not found`.                 *)
C20_KeysNeverShrink ==
    [][/\ DOMAIN db \subseteq DOMAIN db'
       /\ (IsSet(input') /\ out' = SetSuccessful) => input'[2] \in DOMAIN db'
       /\ (pc = "running" /\ IsGet(input') /\ input'[2] \in DOMAIN db)
            => out' # KeyNotFound]_vars

\* a GET of a has just been answered with its value after a later SET of
\* another key
C20_Witness ==
    /\ pc = "running"
    /\ IsGet(input)
    /\ input[2] = kA
    /\ kA \in DOMAIN db
    /\ kUpperA \in DOMAIN db
    /\ out = Shows(kA, HeldText(kA))

=============================================================================
